---- MODULE Spec2Model ----
(***************************************************************************)
(* image_drawer.c: the .vd drawing-script parser (parse_drawing_file), the *)
(* rasterization routines (draw_filled_circle, draw_thick_line,            *)
(* draw_point_with_label, draw_text) and the event/render loop of main.    *)
(*                                                                         *)
(* Text is a sequence of one-character strings.  A C string that the code  *)
(* cuts by writing '\0' into the buffer is the SubSeq up to that place.    *)
(***************************************************************************)
EXTENDS Integers, Sequences, FiniteSets, TLC

\* ------------------------------------------------------------------------
\* Bounds of the model.
\* MAX_DRAW_ELEMENTS is 500 and sizeof(line_buffer) is 512 in the source;
\* both are scaled down so that a full array and an over-long script line
\* are reached by short scripts.
MAX_DRAW_ELEMENTS == 2
LINE_BUFFER_SIZE == 24
MaxThickness == 6
MaxRadius == 5
MaxCoord == 2

\* Program constants.
DRAW_LINE_THICKNESS == 5
DRAW_POINT_RADIUS == 4

\* A char* is a sequence of at most one text: NULL is the empty sequence.
NULL == <<>>
Ptr(text) == <<text>>

\* ------------------------------------------------------------------------
\* libc string functions used by the parser.

NL == "\n"
QUOTE == "\""
Digits == {"0", "1", "2", "3", "4", "5", "6", "7", "8", "9"}
Spaces == {" ", "\t", NL}

DigitVal(c) ==
    CASE c = "0" -> 0 [] c = "1" -> 1 [] c = "2" -> 2 [] c = "3" -> 3
      [] c = "4" -> 4 [] c = "5" -> 5 [] c = "6" -> 6 [] c = "7" -> 7
      [] c = "8" -> 8 [] c = "9" -> 9

Tail_from(s, i) == SubSeq(s, i, Len(s))

OccursAt(s, pat, i) ==
    /\ i + Len(pat) - 1 <= Len(s)
    /\ \A k \in 1..Len(pat) : s[i + k - 1] = pat[k]

\* strstr: index of the first occurrence of pat in s, 0 when there is none.
strstr(s, pat) ==
    IF \E i \in 1..Len(s) : OccursAt(s, pat, i)
    THEN CHOOSE i \in 1..Len(s) :
             OccursAt(s, pat, i) /\ \A j \in 1..(i - 1) : ~OccursAt(s, pat, j)
    ELSE 0

\* strchr: index of the first c in s, 0 when there is none.
strchr(s, c) == strstr(s, <<c>>)

\* strcspn(s, "\n"): the length of the prefix of s without a newline.
strcspn_nl(s) == IF strchr(s, NL) = 0 THEN Len(s) ELSE strchr(s, NL) - 1

RECURSIVE SkipSpaces(_, _)
SkipSpaces(s, i) ==
    IF i <= Len(s) /\ s[i] \in Spaces THEN SkipSpaces(s, i + 1) ELSE i

RECURSIVE ScanDigits(_, _, _)
ScanDigits(s, i, acc) ==
    IF i <= Len(s) /\ s[i] \in Digits
    THEN ScanDigits(s, i + 1, acc * 10 + DigitVal(s[i]))
    ELSE [val |-> acc, next |-> i]

\* One %d conversion of sscanf at position i of s: skips white space, takes an
\* optional sign and at least one digit.  n is 1 on a conversion, 0 on a
\* matching failure and -1 (EOF) when the input ends before any conversion.
scan_d(s, i) ==
    LET j == SkipSpaces(s, i)
        signed == j <= Len(s) /\ s[j] \in {"-", "+"}
        k == IF signed THEN j + 1 ELSE j
        d == ScanDigits(s, k, 0)
    IN  IF j > Len(s) THEN [n |-> -1, val |-> 0, next |-> j]
        ELSE IF d.next = k THEN [n |-> 0, val |-> 0, next |-> k]
        ELSE [n |-> 1,
              val |-> IF signed /\ s[j] = "-" THEN 0 - d.val ELSE d.val,
              next |-> d.next]

\* sscanf(s, "%d"): the number of conversions and the value stored.
sscanf_d(s) == scan_d(s, 1)

\* sscanf(s, "%d,%d,%d,%d"): the values converted, in order; a literal comma
\* of the format must match the next input character.
RECURSIVE scan_list(_, _, _)
scan_list(s, i, acc) ==
    LET r == scan_d(s, i)
    IN  IF r.n # 1 THEN acc
        ELSE IF Len(acc) = 3 THEN Append(acc, r.val)
        ELSE IF r.next <= Len(s) /\ s[r.next] = ","
             THEN scan_list(s, r.next + 1, Append(acc, r.val))
             ELSE Append(acc, r.val)

sscanf_d4(s) == scan_list(s, 1, <<>>)

\* ------------------------------------------------------------------------
\* One pass of the body of the while loop of parse_drawing_file over the
\* content of line_buffer (after the trailing newline is removed).

POINT_CALL == <<"p", "o", "i", "n", "t", "(">>
LINE_CALL == <<"l", "i", "n", "e", "(">>

FAIL == [ok |-> FALSE]

\* The point branch, lines 234-291.  Each step is given the places the code
\* has found so far, under the names the code gives them.

\* Lines 262-281: both numbers were read.
point_values(read_x, read_y, label) ==
    IF read_x.n = 1 /\ read_y.n = 1
    THEN [ok |-> TRUE, x |-> read_x.val, y |-> read_y.val, label |-> label]
    ELSE FAIL

\* Lines 258-260: the closing quote ends the label.
point_label_end(read_x, read_y, label_content_start, quote_end) ==
    IF quote_end = 0 THEN FAIL
    ELSE point_values(read_x, read_y,
                      SubSeq(label_content_start, 1, quote_end - 1))

\* Lines 255-257: the opening quote, with a character after it.
point_label(read_x, read_y, current_pos, quote_start) ==
    IF quote_start = 0 \/ quote_start = Len(current_pos) THEN FAIL
    ELSE point_label_end(read_x, read_y, Tail_from(current_pos, quote_start + 1),
                         strchr(Tail_from(current_pos, quote_start + 1), QUOTE))

\* Lines 248-252: the y part ends at the second comma.
point_y(read_x, current_pos, second_comma) ==
    IF second_comma = 0 THEN FAIL
    ELSE point_label(read_x, sscanf_d(SubSeq(current_pos, 1, second_comma - 1)),
                     Tail_from(current_pos, second_comma + 1),
                     strchr(Tail_from(current_pos, second_comma + 1), QUOTE))

\* Lines 240-246: the x part ends at the first comma.
point_x(current_pos, first_comma) ==
    IF first_comma = 0 THEN FAIL
    ELSE point_y(sscanf_d(SubSeq(current_pos, 1, first_comma - 1)),
                 Tail_from(current_pos, first_comma + 1),
                 strchr(Tail_from(current_pos, first_comma + 1), ","))

\* Lines 235-237: the parameters end at the first ")".
point_params(param_start, param_end) ==
    IF param_end = 0 THEN FAIL
    ELSE point_x(SubSeq(param_start, 1, param_end - 1),
                 strchr(SubSeq(param_start, 1, param_end - 1), ","))

parse_point_params(param_start) ==
    point_params(param_start, strchr(param_start, ")"))

\* The line branch, lines 299-330.
line_values(vals) ==
    IF Len(vals) = 4
    THEN [ok |-> TRUE, x1 |-> vals[1], y1 |-> vals[2],
          x2 |-> vals[3], y2 |-> vals[4]]
    ELSE FAIL

line_params(param_start, param_end) ==
    IF param_end = 0 THEN FAIL
    ELSE line_values(sscanf_d4(SubSeq(param_start, 1, param_end - 1)))

parse_line_params(param_start) ==
    line_params(param_start, strchr(param_start, ")"))

\* What the loop body does with one buffer: "skip" (comment or empty),
\* "point" (the point branch is taken), "line" (the line branch is taken) or
\* "unrecognized"; r is the result of the branch taken.
branch_of(buf, point_call_start, line_call_start) ==
    IF buf = <<>> \/ buf[1] = "#" THEN [branch |-> "skip", r |-> FAIL]
    ELSE IF point_call_start # 0
         THEN [branch |-> "point",
               r |-> parse_point_params(
                         Tail_from(buf, point_call_start + Len(POINT_CALL)))]
    ELSE IF line_call_start # 0
         THEN [branch |-> "line",
               r |-> parse_line_params(
                         Tail_from(buf, line_call_start + Len(LINE_CALL)))]
    ELSE [branch |-> "unrecognized", r |-> FAIL]

parse_buffer(buf) == branch_of(buf, strstr(buf, POINT_CALL), strstr(buf, LINE_CALL))

\* ------------------------------------------------------------------------
\* The rasterization routines.  A routine is the sequence of the renderer
\* calls it makes.

RenderDrawLine(x1, y1, x2, y2) ==
    [op |-> "line", x1 |-> x1, y1 |-> y1, x2 |-> x2, y2 |-> y2]
RenderDrawPoint(x, y) == [op |-> "point", x |-> x, y |-> y]
RenderFillRect(x, y, text) == [op |-> "fillrect", x |-> x, y |-> y, text |-> text]
RenderCopyText(x, y, text) == [op |-> "text", x |-> x, y |-> y, text |-> text]

\* (int)sqrt(v) for an integer v >= 0 held in a float: exact below 2^24.
isqrt(v) == CHOOSE k \in 0..v : k * k <= v /\ v < (k + 1) * (k + 1)

\* draw_filled_circle with the loop stopped before y = radius.
draw_filled_circle_short(cx, cy, radius) ==
    [k \in 1..(2 * radius) |->
        LET y == k - 1 - radius
            x_span == isqrt(radius * radius - y * y)
        IN  RenderDrawLine(cx - x_span, cy + y, cx + x_span, cy + y)]

draw_filled_circle(cx, cy, radius) ==
    [k \in 1..(2 * radius + 1) |->
        LET y == k - 1 - radius
            x_squared == IF radius * radius - y * y < 0
                         THEN 0 ELSE radius * radius - y * y
            x_span == isqrt(x_squared)
        IN  RenderDrawLine(cx - x_span, cy + y, cx + x_span, cy + y)]

\* (int)(i * (num / length)) with length = sqrt(len2): truncation toward
\* zero of i*num/sqrt(len2).  The float result equals the exact one for the
\* coordinates of this model (|i*num|^2 and k^2*len2 are integers far below
\* 2^24, equal only on axis-aligned segments, where the quotient is exact).
trunc_scaled(i, num, len2) ==
    LET a == i * num
        abs == IF a < 0 THEN 0 - a ELSE a
        k == CHOOSE m \in 0..abs :
                 m * m * len2 <= abs * abs /\ abs * abs < (m + 1) * (m + 1) * len2
    IN  IF a < 0 THEN 0 - k ELSE k

\* The offsets -thickness/2 .. thickness/2 of both loops, in loop order
\* (thickness >= 0, where C's division and \div agree).
thick_offsets(thickness) ==
    LET half == thickness \div 2
    IN  [k \in 1..(2 * half + 1) |-> k - 1 - half]

draw_thick_line(line, thickness) ==
    LET x1 == line.p1.x
        y1 == line.p1.y
        x2 == line.p2.x
        y2 == line.p2.y
        dx == x2 - x1
        dy == y2 - y1
        len2 == dx * dx + dy * dy
        offs == thick_offsets(thickness)
        n == Len(offs)
    IN  IF len2 = 0
        THEN [k \in 1..(n * n) |->
                 RenderDrawPoint(x1 + offs[((k - 1) \div n) + 1],
                                 y1 + offs[((k - 1) % n) + 1])]
        ELSE [k \in 1..n |->
                 LET ox == trunc_scaled(offs[k], 0 - dy, len2)
                     oy == trunc_scaled(offs[k], dx, len2)
                 IN  RenderDrawLine(x1 + ox, y1 + oy, x2 + ox, y2 + oy)]

\* draw_text: ttf is the outcome of the text collaborator, "ok" or "failed"
\* (TTF_RenderText_Solid or SDL_CreateTextureFromSurface returned NULL).
draw_text(font, text, x, y, ttf) ==
    IF font = NULL \/ text = NULL \/ text[1] = <<>> THEN <<>>
    ELSE IF ttf # "ok" THEN <<>>
    ELSE <<RenderFillRect(x, y, text[1]), RenderCopyText(x, y, text[1])>>

draw_point_with_label(point, radius, font, ttf) ==
    draw_filled_circle(point.x, point.y, radius)
        \o (IF point.label # NULL
            THEN draw_text(font, point.label, point.x + radius + 5,
                           point.y - radius, ttf)
            ELSE <<>>)

\* ------------------------------------------------------------------------
\* The script lines the model feeds to the parser.

Pad(n) == [i \in 1..n |-> " "]

L_blank == <<>>
L_comment == <<"#">> \o POINT_CALL \o <<"1", ",", "2", ",", QUOTE, "a", QUOTE, ")">>
L_indented_comment ==
    <<" ", "#">> \o LINE_CALL \o <<"1", ",", "2", ",", "3", ",", "4", ")">>
L_point_a == POINT_CALL \o <<"1", ",", "2", ",", QUOTE, "a", QUOTE, ")">>
L_point_b ==
    POINT_CALL \o <<"-", "3", ",", " ", "4", ",", QUOTE, "b", QUOTE, ")">>
L_point_empty_label == POINT_CALL \o <<"5", ",", "6", ",", QUOTE, QUOTE, ")">>
L_point_then_line ==
    POINT_CALL \o LINE_CALL \o <<"1", ",", "2", ",", "3", ",", "4", ")">>
L_line == LINE_CALL \o <<"1", ",", "2", ",", "3", ",", "4", ")">>
L_line_labels == LINE_CALL \o <<"a", ",", "b", ")">>
L_word == <<"h", "i">>
\* Longer than the buffer: fgets cuts it after LINE_BUFFER_SIZE - 1
\* characters, right before the instruction at its end.
L_long_point ==
    POINT_CALL \o <<"9", ",">> \o Pad(LINE_BUFFER_SIZE - 1 - 8)
        \o LINE_CALL \o <<"1", ",", "2", ",", "3", ",", "4", ")">>

ScriptLines ==
    { L_blank, L_comment, L_indented_comment, L_point_a, L_point_b,
      L_point_empty_label, L_point_then_line, L_line, L_line_labels, L_word,
      L_long_point }

\* ------------------------------------------------------------------------
\* State.

VARIABLES
    pc,                  \* where main is
    exit_code,           \* main's return value, -1 while running
    gFont,               \* NULL when TTF_OpenFont failed
    loaded_points,       \* Point loaded_points[MAX_DRAW_ELEMENTS]
    loaded_point_count,
    loaded_lines,        \* Line loaded_lines[MAX_DRAW_ELEMENTS]
    loaded_line_count,
    parse_result,        \* "none", "true" or "false": what parse_drawing_file returned
    stream,              \* what fgets has still to read of the current script line
    line_buffer,         \* what fgets last put in line_buffer, newline removed
    cur_line,            \* the script line being read, <<>> before the first
    line_start,          \* the Scene when cur_line was begun
    out,                 \* the last message of the setup and of the parser
    quit,
    title,               \* the window title
    screenshot,          \* "none", "saved" or "failed": the last save_screenshot
    frame,               \* the calls on the renderer since the last clear
    li, pi,              \* the loop counters of the two draw loops
    ras                  \* a rasterization routine called on its own

vars == <<pc, exit_code, gFont, loaded_points, loaded_point_count, loaded_lines,
          loaded_line_count, parse_result, stream, line_buffer, cur_line,
          line_start, out, quit, title, screenshot, frame, li, pi, ras>>

sceneVars == <<loaded_points, loaded_point_count, loaded_lines, loaded_line_count>>
fileVars == <<stream, line_buffer, cur_line, line_start>>
loopVars == <<quit, title, screenshot, frame, li, pi>>

\* An array slot never written.
UninitSlot == [uninit |-> TRUE]
Slots == 1..MAX_DRAW_ELEMENTS

\* The Scene: the first loaded_point_count points and loaded_line_count lines.
Points == [i \in 1..loaded_point_count |-> loaded_points[i]]
Lines == [i \in 1..loaded_line_count |-> loaded_lines[i]]
Scene == [points |-> Points, lines |-> Lines]
EmptyScene == [points |-> <<>>, lines |-> <<>>]

RasIdle == [fn |-> "none"]

Init ==
    /\ pc = "start"
    /\ exit_code = -1
    /\ gFont = NULL
    /\ loaded_points = [i \in Slots |-> UninitSlot]
    /\ loaded_point_count = 0
    /\ loaded_lines = [i \in Slots |-> UninitSlot]
    /\ loaded_line_count = 0
    /\ parse_result = "none"
    /\ stream = <<>>
    /\ line_buffer = <<>>
    /\ cur_line = <<>>
    /\ line_start = EmptyScene
    /\ out = "none"
    /\ quit = FALSE
    /\ title = <<"Image Viewer">>
    /\ screenshot = "none"
    /\ frame = <<>>
    /\ li = 0
    /\ pi = 0
    /\ ras = RasIdle

\* ------------------------------------------------------------------------
\* parse_drawing_file.

Min(a, b) == IF a < b THEN a ELSE b

\* fgets(line_buffer, sizeof(line_buffer), file) on the characters s still
\* to be read of a script line (its newline included): at most
\* LINE_BUFFER_SIZE - 1 characters; got is what is left of them after
\* line_buffer[strcspn(line_buffer, "\n")] = 0.
fgets(s) ==
    LET n == Min(Len(s), LINE_BUFFER_SIZE - 1)
        raw == SubSeq(s, 1, n)
    IN  [got |-> SubSeq(raw, 1, strcspn_nl(raw)), rest |-> Tail_from(s, n + 1)]

\* The buffers fgets cuts a script line into.
RECURSIVE chunks(_)
chunks(s) == IF s = <<>> THEN <<>> ELSE <<fgets(s).got>> \o chunks(fgets(s).rest)
ChunksOf(text) == chunks(text \o <<NL>>)

\* parse_buffer on the buffers of the script lines, worked out once.
ScriptBuffers == UNION { {ChunksOf(text)[k] : k \in 1..Len(ChunksOf(text))} :
                         text \in ScriptLines }
ParsedBuffers == [buf \in ScriptBuffers |-> parse_buffer(buf)]
parsed(buf) == IF buf \in ScriptBuffers THEN ParsedBuffers[buf] ELSE parse_buffer(buf)

\* store_point with the new point put in front of the others.
store_point_in_front(points, count, r, mem) ==
    [arr |-> [i \in DOMAIN points |->
                 IF i = 1
                 THEN [x |-> r.x, y |-> r.y,
                       label |-> IF mem THEN Ptr(r.label) ELSE NULL]
                 ELSE points[i - 1]],
     count |-> IF mem THEN count + 1 ELSE count]

\* Lines 264-274: the point is written into the next slot; the count moves
\* only when malloc gave memory for the label.
store_point(points, count, r, mem) ==
    [arr |-> [points EXCEPT ![count + 1] =
                 [x |-> r.x, y |-> r.y,
                  label |-> IF mem THEN Ptr(r.label) ELSE NULL]],
     count |-> IF mem THEN count + 1 ELSE count]

\* store_line with the second endpoint left at a default (0, 0).
store_line_default_end(lines, count, r) ==
    [arr |-> [lines EXCEPT ![count + 1] =
                 [p1 |-> [x |-> r.x1, y |-> r.y1, label |-> NULL],
                  p2 |-> [x |-> 0, y |-> 0, label |-> NULL]]],
     count |-> count + 1]

\* Lines 312-320.
store_line(lines, count, r) ==
    [arr |-> [lines EXCEPT ![count + 1] =
                 [p1 |-> [x |-> r.x1, y |-> r.y1, label |-> NULL],
                  p2 |-> [x |-> r.x2, y |-> r.y2, label |-> NULL]]],
     count |-> count + 1]

\* has_room off by one.
has_room_one_more(count, max_elements) == count <= max_elements

\* Lines 263 and 311: the capacity tests.
has_room(count, max_elements) == count < max_elements

\* The body of the while loop on a buffer that parse_buffer has split into
\* pb: the arrays, the counts and the message it leaves.  mem is malloc's
\* outcome, read only where malloc is called.
body_point(pb, mem, same, max_elements) ==
    IF ~pb.r.ok THEN [same EXCEPT !.out = "Failed to parse point format"]
    ELSE IF ~has_room(same.point_count, max_elements)
         THEN [same EXCEPT !.out = "Max points reached"]
    ELSE [same EXCEPT
             !.points = store_point(same.points, same.point_count, pb.r, mem).arr,
             !.point_count =
                 store_point(same.points, same.point_count, pb.r, mem).count,
             !.out = IF mem THEN "Parsed Point"
                     ELSE "Error allocating memory for label"]

body_line(pb, same, max_elements) ==
    IF ~pb.r.ok THEN [same EXCEPT !.out = "Failed to parse line format"]
    ELSE IF ~has_room(same.line_count, max_elements)
         THEN [same EXCEPT !.out = "Max lines reached"]
    ELSE [same EXCEPT
             !.lines = store_line(same.lines, same.line_count, pb.r).arr,
             !.line_count = store_line(same.lines, same.line_count, pb.r).count,
             !.out = "Parsed Line"]

body_on(pb, mem, same, max_elements) ==
    IF pb.branch = "skip" THEN same
    ELSE IF pb.branch = "point" THEN body_point(pb, mem, same, max_elements)
    ELSE IF pb.branch = "line" THEN body_line(pb, same, max_elements)
    ELSE [same EXCEPT !.out = "Unrecognized line format"]

loop_body(buf, mem, points, point_count, lines, line_count, max_elements, msg) ==
    body_on(parsed(buf), mem,
            [points |-> points, point_count |-> point_count,
             lines |-> lines, line_count |-> line_count, out |-> msg],
            max_elements)

\* Whether the body calls malloc on the buffer split into pb.
malloc_called(pb, point_count, max_elements) ==
    pb.branch = "point" /\ pb.r.ok /\ has_room(point_count, max_elements)

calls_malloc(buf, point_count, max_elements) ==
    malloc_called(parsed(buf), point_count, max_elements)

\* main, lines 354-452: arguments, SDL, image, window, renderer, texture.
\* Any failure returns 1 before the script is looked at.
MainSetupFail ==
    /\ pc = "start"
    /\ pc' = "exit"
    /\ exit_code' = 1
    /\ out' = "setup failed"
    /\ UNCHANGED <<gFont, sceneVars, parse_result, fileVars, loopVars, ras>>

\* Lines 444-459: the font may fail to load; the counts start at 0.
MainSetup ==
    /\ pc = "start"
    /\ pc' = "load"
    /\ \E font \in {NULL, Ptr("DejaVuSans.ttf")} :
          /\ gFont' = font
          /\ out' = IF font = NULL THEN "Failed to load font" ELSE out
    /\ loaded_point_count' = 0
    /\ loaded_line_count' = 0
    /\ UNCHANGED <<exit_code, loaded_points, loaded_lines, parse_result,
                   fileVars, loopVars, ras>>

\* Line 461: no drawing file on the command line.
NoDrawingFile ==
    /\ pc = "load"
    /\ pc' = "events"
    /\ UNCHANGED <<exit_code, gFont, sceneVars, parse_result, fileVars, out,
                   loopVars, ras>>

\* ParseOpenFail made fatal: main returns 1.
ParseOpenFail_fatal ==
    /\ pc = "load"
    /\ pc' = "exit"
    /\ exit_code' = 1
    /\ parse_result' = "false"
    /\ out' = "Could not open drawing file"
    /\ UNCHANGED <<gFont, sceneVars, fileVars, loopVars, ras>>

\* Lines 208-212: fopen fails, parse_drawing_file returns false.
ParseOpenFail ==
    /\ pc = "load"
    /\ pc' = "events"
    /\ parse_result' = "false"
    /\ out' = "Could not open drawing file"
    /\ UNCHANGED <<exit_code, gFont, sceneVars, fileVars, loopVars, ras>>

\* Lines 208-218: fopen succeeds, the counts are reset.
ParseOpen ==
    /\ pc = "load"
    /\ pc' = "parse"
    /\ loaded_point_count' = 0
    /\ loaded_line_count' = 0
    /\ out' = "Parsing drawing file"
    /\ UNCHANGED <<exit_code, gFont, loaded_points, loaded_lines, parse_result,
                   fileVars, loopVars, ras>>

\* One iteration of the while loop, lines 220-337: buf is the buffer fgets
\* filled, rest what it left of the script line.
ParseIteration(buf, rest) ==
    /\ stream' = rest
    /\ line_buffer' = buf
    /\ \E mem \in IF calls_malloc(buf, loaded_point_count, MAX_DRAW_ELEMENTS)
                  THEN BOOLEAN ELSE {TRUE} :
          \E b \in {loop_body(buf, mem, loaded_points, loaded_point_count,
                              loaded_lines, loaded_line_count,
                              MAX_DRAW_ELEMENTS, out)} :
             /\ loaded_points' = b.points
             /\ loaded_point_count' = b.point_count
             /\ loaded_lines' = b.lines
             /\ loaded_line_count' = b.line_count
             /\ out' = b.out

ParseBody(s) == ParseIteration(fgets(s).got, fgets(s).rest)

\* fgets starts on the next line of the file.
ParseNextLine ==
    /\ pc = "parse"
    /\ stream = <<>>
    /\ \E text \in ScriptLines :
          /\ cur_line' = <<text>>
          /\ ParseBody(text \o <<NL>>)
    /\ line_start' = Scene
    /\ UNCHANGED <<pc, exit_code, gFont, parse_result, loopVars, ras>>

\* fgets goes on in a line longer than the buffer.
ParseLongLine ==
    /\ pc = "parse"
    /\ stream # <<>>
    /\ ParseBody(stream)
    /\ UNCHANGED <<pc, exit_code, gFont, parse_result, cur_line, line_start,
                   loopVars, ras>>

\* fgets returns NULL at the end of the file: the loop is left.
ParseEOF ==
    /\ pc = "parse"
    /\ stream = <<>>
    /\ pc' = "parsed"
    /\ UNCHANGED <<exit_code, gFont, sceneVars, parse_result, fileVars, out,
                   loopVars, ras>>

\* Lines 339-341: fclose, the summary, return true.  The file and the
\* locals of parse_drawing_file are gone.
ParseReturn ==
    /\ pc = "parsed"
    /\ pc' = "events"
    /\ parse_result' = "true"
    /\ out' = "Finished parsing"
    /\ stream' = <<>>
    /\ line_buffer' = <<>>
    /\ cur_line' = <<>>
    /\ line_start' = EmptyScene
    /\ UNCHANGED <<exit_code, gFont, sceneVars, loopVars, ras>>

\* ------------------------------------------------------------------------
\* main: the event loop, lines 471-509.  One action per event polled.

\* main's own debug prints in this loop ("Clicked at", "Key pressed", ...)
\* are not kept: out stays the last message of the setup and the parser.
MousePositions == {<<1, 2>>}

\* PollEvent with a left click that adds a point at the place clicked.
PollEvent_click_adds_point(e) ==
    /\ pc = "events"
    /\ e = "SDL_MOUSEBUTTONDOWN"
    /\ \E mouse \in MousePositions :
          \E b \in {store_point(loaded_points, loaded_point_count,
                                [x |-> mouse[1], y |-> mouse[2], label |-> <<>>],
                                TRUE)} :
             /\ loaded_points' = IF has_room(loaded_point_count, MAX_DRAW_ELEMENTS)
                                 THEN b.arr ELSE loaded_points
             /\ loaded_point_count' = IF has_room(loaded_point_count, MAX_DRAW_ELEMENTS)
                                      THEN b.count ELSE loaded_point_count
    /\ UNCHANGED <<pc, exit_code, gFont, loaded_lines, loaded_line_count,
                   parse_result, fileVars, out, loopVars, ras>>

PollEvent(e) ==
    /\ pc = "events"
    /\ \/ /\ e = "SDL_QUIT"
          /\ quit' = TRUE
          /\ UNCHANGED <<title, screenshot>>
       \/ /\ e = "SDL_MOUSEMOTION"
          /\ \E mouse \in MousePositions :
                title' = <<"Image Viewer - Cursor", mouse[1], mouse[2]>>
          /\ UNCHANGED <<quit, screenshot>>
       \/ /\ e = "SDL_MOUSEBUTTONDOWN"
          /\ UNCHANGED <<quit, title, screenshot>>
       \/ /\ e = "SDLK_q"
          /\ quit' = TRUE
          /\ UNCHANGED <<title, screenshot>>
       \/ /\ e = "SDLK_s"
          /\ \E saved \in BOOLEAN :
                screenshot' = IF saved THEN "saved" ELSE "failed"
          /\ UNCHANGED <<quit, title>>
       \/ /\ e \in {"other key", "other event"}
          /\ UNCHANGED <<quit, title, screenshot>>
    /\ UNCHANGED <<pc, exit_code, gFont, sceneVars, parse_result, fileVars, out,
                   frame, li, pi, ras>>

Events == {"SDL_QUIT", "SDL_MOUSEMOTION", "SDL_MOUSEBUTTONDOWN", "SDLK_q",
           "SDLK_s", "other key", "other event"}

\* A call of main on the renderer: the routine, the index of the element it
\* is given and the element itself.  What the routine draws is
\* draw_thick_line / draw_point_with_label of that element.
RenderCall(call, i, arg) == [call |-> call, i |-> i, arg |-> arg]

\* Lines 511-517: the queue is empty; clear, then the image.
RenderClear ==
    /\ pc = "events"
    /\ pc' = "draw"
    /\ frame' = <<RenderCall("SDL_RenderClear", 0, <<>>),
                  RenderCall("SDL_RenderCopy", 0, <<>>)>>
    /\ li' = 0
    /\ pi' = 0
    /\ UNCHANGED <<exit_code, gFont, sceneVars, parse_result, fileVars, out,
                   quit, title, screenshot, ras>>

\* Lines 520-522: one pass of the loop over the lines.
DrawLine ==
    /\ pc = "draw"
    /\ li < loaded_line_count
    /\ frame' = Append(frame,
                       RenderCall("draw_thick_line", li + 1, loaded_lines[li + 1]))
    /\ li' = li + 1
    /\ UNCHANGED <<pc, exit_code, gFont, sceneVars, parse_result, fileVars, out,
                   quit, title, screenshot, pi, ras>>

\* DrawPoint without waiting for the loop over the lines.
DrawPoint_any_time ==
    /\ pc = "draw"
    /\ pi < loaded_point_count
    /\ frame' = Append(frame,
                       RenderCall("draw_point_with_label", pi + 1,
                                  loaded_points[pi + 1]))
    /\ pi' = pi + 1
    /\ UNCHANGED <<pc, exit_code, gFont, sceneVars, parse_result, fileVars, out,
                   quit, title, screenshot, li, ras>>

\* Lines 525-527: one pass of the loop over the points, begun when the loop
\* over the lines is over.
DrawPoint ==
    /\ pc = "draw"
    /\ ~(li < loaded_line_count)
    /\ pi < loaded_point_count
    /\ frame' = Append(frame,
                       RenderCall("draw_point_with_label", pi + 1,
                                  loaded_points[pi + 1]))
    /\ pi' = pi + 1
    /\ UNCHANGED <<pc, exit_code, gFont, sceneVars, parse_result, fileVars, out,
                   quit, title, screenshot, li, ras>>

\* Line 530, then the test of while (!quit).
Present ==
    /\ pc = "draw"
    /\ ~(li < loaded_line_count)
    /\ ~(pi < loaded_point_count)
    /\ frame' = Append(frame, RenderCall("SDL_RenderPresent", 0, <<>>))
    /\ pc' = IF quit THEN "cleanup" ELSE "events"
    /\ UNCHANGED <<exit_code, gFont, sceneVars, parse_result, fileVars, out,
                   quit, title, screenshot, li, pi, ras>>

\* Lines 533-548: free_loaded_drawing_data, the SDL teardown, return 0.
Cleanup ==
    /\ pc = "cleanup"
    /\ pc' = "exit"
    /\ exit_code' = 0
    /\ loaded_points' = [i \in Slots |->
                            IF i <= loaded_point_count
                            THEN [loaded_points[i] EXCEPT !.label = NULL]
                            ELSE loaded_points[i]]
    /\ UNCHANGED <<gFont, loaded_point_count, loaded_lines, loaded_line_count,
                   parse_result, fileVars, out, loopVars, ras>>

Next ==
    \/ MainSetupFail
    \/ MainSetup
    \/ NoDrawingFile
    \/ ParseOpenFail
    \/ ParseOpen
    \/ ParseNextLine
    \/ ParseLongLine
    \/ ParseEOF
    \/ ParseReturn
    \/ \E e \in Events : PollEvent(e)
    \/ RenderClear
    \/ DrawLine
    \/ DrawPoint
    \/ Present
    \/ Cleanup

Spec == Init /\ [][Next]_vars

\* ------------------------------------------------------------------------
\* The rasterization routines called on their own, on every input within
\* the bounds.

Coords == (0 - MaxCoord)..MaxCoord
Labels == {NULL, Ptr(<<>>), Ptr(<<"a">>)}

CircleCalls ==
    { [fn |-> "draw_filled_circle", cx |-> cx, cy |-> cy, radius |-> radius,
       done |-> FALSE, ops |-> <<>>] :
      cx \in Coords, cy \in Coords, radius \in 0..MaxRadius }

ThickLineCalls ==
    { [fn |-> "draw_thick_line",
       line |-> [p1 |-> [x |-> x1, y |-> y1, label |-> NULL],
                 p2 |-> [x |-> x2, y |-> y2, label |-> NULL]],
       thickness |-> thickness, done |-> FALSE, ops |-> <<>>] :
      x1 \in Coords, y1 \in Coords, x2 \in Coords, y2 \in Coords,
      thickness \in 0..MaxThickness }

PointCalls ==
    { [fn |-> "draw_point_with_label",
       point |-> [x |-> x, y |-> y, label |-> label], radius |-> radius,
       font |-> font, done |-> FALSE, ops |-> <<>>] :
      x \in Coords, y \in Coords, label \in Labels, radius \in {DRAW_POINT_RADIUS},
      font \in {NULL, Ptr("DejaVuSans.ttf")} }

InitRaster ==
    /\ pc = "raster"
    /\ exit_code = -1
    /\ gFont = NULL
    /\ loaded_points = [i \in Slots |-> UninitSlot]
    /\ loaded_point_count = 0
    /\ loaded_lines = [i \in Slots |-> UninitSlot]
    /\ loaded_line_count = 0
    /\ parse_result = "none"
    /\ stream = <<>>
    /\ line_buffer = <<>>
    /\ cur_line = <<>>
    /\ line_start = EmptyScene
    /\ out = "none"
    /\ quit = FALSE
    /\ title = <<"Image Viewer">>
    /\ screenshot = "none"
    /\ frame = <<>>
    /\ li = 0
    /\ pi = 0
    /\ ras \in CircleCalls \cup ThickLineCalls \cup PointCalls

CallFilledCircle ==
    /\ pc = "raster"
    /\ ras.fn = "draw_filled_circle"
    /\ ~ras.done
    /\ ras' = [ras EXCEPT !.done = TRUE,
                          !.ops = draw_filled_circle(ras.cx, ras.cy, ras.radius)]
    /\ UNCHANGED <<pc, exit_code, gFont, sceneVars, parse_result, fileVars, out,
                   loopVars>>

CallThickLine ==
    /\ pc = "raster"
    /\ ras.fn = "draw_thick_line"
    /\ ~ras.done
    /\ ras' = [ras EXCEPT !.done = TRUE,
                          !.ops = draw_thick_line(ras.line, ras.thickness)]
    /\ UNCHANGED <<pc, exit_code, gFont, sceneVars, parse_result, fileVars, out,
                   loopVars>>

CallPointWithLabel ==
    /\ pc = "raster"
    /\ ras.fn = "draw_point_with_label"
    /\ ~ras.done
    /\ \E ttf \in {"ok", "failed"} :
          ras' = [ras EXCEPT !.done = TRUE,
                             !.ops = draw_point_with_label(ras.point, ras.radius,
                                                           ras.font, ttf)]
    /\ UNCHANGED <<pc, exit_code, gFont, sceneVars, parse_result, fileVars, out,
                   loopVars>>

NextRaster == CallFilledCircle \/ CallThickLine \/ CallPointWithLabel

SpecRaster == InitRaster /\ [][NextRaster]_vars

\* ------------------------------------------------------------------------
\* Properties.

\* A step of the while loop of parse_drawing_file: line_buffer' is the buffer
\* the iteration worked on.
IterationStep == pc = "parse" /\ pc' = "parse"

\* What is written in the instructions of the script lines.
WrittenPoint(buf) ==
    CASE buf = L_point_a -> [x |-> 1, y |-> 2, label |-> Ptr(<<"a">>)]
      [] buf = L_point_b -> [x |-> 0 - 3, y |-> 4, label |-> Ptr(<<"b">>)]
      [] buf = L_point_empty_label -> [x |-> 5, y |-> 6, label |-> Ptr(<<>>)]
WrittenLine ==
    [p1 |-> [x |-> 1, y |-> 2, label |-> NULL],
     p2 |-> [x |-> 3, y |-> 4, label |-> NULL]]

IsPointBuffer(buf) == parse_buffer(buf).branch = "point"
IsLineBuffer(buf) == parse_buffer(buf).branch = "line"
PointParses(buf) == IsPointBuffer(buf) /\ parse_buffer(buf).r.ok
LineParses(buf) == IsLineBuffer(buf) /\ parse_buffer(buf).r.ok

C2_PointsInFileOrder ==
    /\ [](pc = "parse" /\ cur_line = <<>> => Points = <<>>)
    /\ [][IterationStep =>
             IF /\ PointParses(line_buffer')
                /\ loaded_point_count < MAX_DRAW_ELEMENTS
                /\ out' = "Parsed Point"
             THEN Points' = Append(Points, WrittenPoint(line_buffer'))
             ELSE Points' = Points]_vars

C2_Witness ==
    /\ pc = "parsed"
    /\ Points = <<WrittenPoint(L_point_a), WrittenPoint(L_point_b)>>

\* A script line that matches neither instruction, or matches one and fails
\* to parse.
Malformed(text) ==
    \/ parse_buffer(text).branch = "unrecognized"
    \/ IsPointBuffer(text) /\ ~PointParses(text)
    \/ IsLineBuffer(text) /\ ~LineParses(text)

\* C3 as stated: once a malformed script line has been read to its end, the
\* Scene is what it was before the line, and the parser is still reading.
C3_MalformedLineChangesNothing ==
    (pc = "parse" /\ stream = <<>> /\ cur_line # <<>> /\ Malformed(cur_line[1]))
        => Scene = line_start /\ exit_code = -1

\* C4: both counts stay within MAX_DRAW_ELEMENTS; an instruction of a kind
\* whose array is full changes neither array nor count; while one array is
\* full an accepted instruction of the other kind is still stored.
C4_CapacityPerKind ==
    /\ [](/\ loaded_point_count \in 0..MAX_DRAW_ELEMENTS
          /\ loaded_line_count \in 0..MAX_DRAW_ELEMENTS)
    /\ [][IterationStep =>
             /\ (loaded_point_count = MAX_DRAW_ELEMENTS /\ IsPointBuffer(line_buffer'))
                    => UNCHANGED sceneVars
             /\ (loaded_line_count = MAX_DRAW_ELEMENTS /\ IsLineBuffer(line_buffer'))
                    => UNCHANGED sceneVars
             /\ (/\ loaded_point_count = MAX_DRAW_ELEMENTS
                 /\ loaded_line_count < MAX_DRAW_ELEMENTS
                 /\ LineParses(line_buffer'))
                    => /\ loaded_line_count' = loaded_line_count + 1
                       /\ loaded_points' = loaded_points
             /\ (/\ loaded_line_count = MAX_DRAW_ELEMENTS
                 /\ loaded_point_count < MAX_DRAW_ELEMENTS
                 /\ PointParses(line_buffer')
                 /\ out' = "Parsed Point")
                    => /\ loaded_point_count' = loaded_point_count + 1
                       /\ loaded_lines' = loaded_lines]_vars

C4_Witness ==
    /\ pc = "parse"
    /\ Len(line_start.points) = MAX_DRAW_ELEMENTS
    /\ loaded_point_count = MAX_DRAW_ELEMENTS
    /\ Len(line_start.lines) + 1 = loaded_line_count
    /\ out = "Parsed Line"

\* The calls of a whole frame on the Scene: clear, image, every line in
\* sequence order, then every point in sequence order.
FrameOfScene ==
    <<RenderCall("SDL_RenderClear", 0, <<>>), RenderCall("SDL_RenderCopy", 0, <<>>)>>
        \o [k \in 1..loaded_line_count |->
               RenderCall("draw_thick_line", k, loaded_lines[k])]
        \o [k \in 1..loaded_point_count |->
               RenderCall("draw_point_with_label", k, loaded_points[k])]

\* C5: while a frame is drawn its calls are a prefix of FrameOfScene, no
\* point is drawn before the last line, and the frame is presented only
\* when it is the whole of FrameOfScene.
C5_LinesThenPointsOnce ==
    /\ pc = "draw" =>
          /\ frame = SubSeq(FrameOfScene, 1, 2 + li + pi)
          /\ pi > 0 => li = loaded_line_count
    /\ (pc \in {"events", "cleanup"} /\ frame # <<>>) =>
          frame = FrameOfScene \o <<RenderCall("SDL_RenderPresent", 0, <<>>)>>

C5_Witness ==
    /\ pc = "events"
    /\ frame # <<>>
    /\ loaded_line_count >= 1
    /\ loaded_point_count >= 2

\* C6 as stated: once a blank script line, or one whose first character
\* that is not white space is '#', has been read to its end, the Scene is
\* what it was before the line.
IsBlankOrComment(text) ==
    \/ text = <<>>
    \/ SkipSpaces(text, 1) <= Len(text) /\ text[SkipSpaces(text, 1)] = "#"

C6_CommentsAddNothing ==
    (pc = "parse" /\ stream = <<>> /\ cur_line # <<>> /\ IsBlankOrComment(cur_line[1]))
        => Scene = line_start

\* C7 as stated: no point of the Scene has a label that is empty once the
\* white space around it is trimmed.
IsBlankText(text) == \A k \in 1..Len(text) : text[k] \in Spaces

C7_NoEmptyLabel ==
    pc \in {"parse", "parsed", "events", "draw"} =>
        \A i \in 1..loaded_point_count :
            loaded_points[i].label # NULL => ~IsBlankText(loaded_points[i].label[1])

\* C8: after a failed fopen nothing is stored, the Scene is empty, main is
\* in its event/render loop (or has left it on a quit, returning 0), and
\* never returns 1.
C8_OpenFailureIsNotFatal ==
    parse_result = "false" =>
        /\ Scene = EmptyScene
        /\ \A i \in Slots : loaded_points[i] = UninitSlot /\ loaded_lines[i] = UninitSlot
        /\ pc \in {"events", "draw", "cleanup", "exit"}
        /\ exit_code \in {-1, 0}
        /\ pc = "exit" => quit /\ frame # <<>>

C8_Witness ==
    /\ parse_result = "false"
    /\ pc = "events"
    /\ frame = FrameOfScene \o <<RenderCall("SDL_RenderPresent", 0, <<>>)>>
    /\ FrameOfScene = <<RenderCall("SDL_RenderClear", 0, <<>>),
                        RenderCall("SDL_RenderCopy", 0, <<>>)>>

\* The pixels of a sequence of SDL_RenderDrawPoint calls.
PixelsOf(ops) == {<<ops[k].x, ops[k].y>> : k \in 1..Len(ops)}

\* C9 as stated: on a segment of length zero and a thickness of at least 1,
\* draw_thick_line draws something, and what it draws is a filled square of
\* side thickness that holds the point at its middle (to the pixel).
C9_ZeroLengthIsSquareOfSideThickness ==
    (/\ ras.fn = "draw_thick_line" /\ ras.done
     /\ ras.thickness >= 1 /\ ras.line.p1 = ras.line.p2)
        => /\ ras.ops # <<>>
           /\ \A k \in 1..Len(ras.ops) : ras.ops[k].op = "point"
           /\ \E a \in (ras.line.p1.x - ras.thickness)..ras.line.p1.x,
                 b \in (ras.line.p1.y - ras.thickness)..ras.line.p1.y :
                 /\ PixelsOf(ras.ops) =
                        (a..(a + ras.thickness - 1)) \X (b..(b + ras.thickness - 1))
                 /\ 2 * ras.line.p1.x - (2 * a + ras.thickness - 1) \in {-1, 0, 1}
                 /\ 2 * ras.line.p1.y - (2 * b + ras.thickness - 1) \in {-1, 0, 1}

\* C10: with radius 0 draw_filled_circle makes one call, on the one pixel
\* (cx, cy); with radius r > 0 it makes one call per row cy + dy, dy in
\* -r..r, a horizontal span from cx - dx to cx + dx where dx is the integer
\* with dx^2 <= r^2 - dy^2 < (dx + 1)^2.
C10_CircleSpans ==
    (ras.fn = "draw_filled_circle" /\ ras.done) =>
        /\ \A k \in 1..Len(ras.ops) :
              /\ ras.ops[k].op = "line"
              /\ ras.ops[k].y1 = ras.ops[k].y2
        /\ ras.radius = 0 =>
              ras.ops = <<RenderDrawLine(ras.cx, ras.cy, ras.cx, ras.cy)>>
        /\ ras.radius > 0 =>
              /\ Len(ras.ops) = 2 * ras.radius + 1
              /\ \A dy \in (0 - ras.radius)..ras.radius :
                    \E k \in 1..Len(ras.ops) :
                       /\ ras.ops[k].y1 = ras.cy + dy
                       /\ \A j \in 1..Len(ras.ops) :
                             ras.ops[j].y1 = ras.cy + dy => j = k
                       /\ \E dx \in 0..ras.radius :
                             /\ dx * dx <= ras.radius * ras.radius - dy * dy
                             /\ ras.radius * ras.radius - dy * dy < (dx + 1) * (dx + 1)
                             /\ ras.ops[k].x1 = ras.cx - dx
                             /\ ras.ops[k].x2 = ras.cx + dx

C10_Witness ==
    /\ ras.fn = "draw_filled_circle"
    /\ ras.done
    /\ ras.radius = DRAW_POINT_RADIUS
    /\ Len(ras.ops) = 9

\* C11: from the end of the parse until the render loop exits, no step of
\* main (an event of any kind polled, a save on 's', a clear, a draw call,
\* a present) changes the point array, the line array or either count.
InRenderLoop == pc \in {"events", "draw"}

C11_SceneFixedInLoop ==
    [][InRenderLoop =>
          /\ UNCHANGED sceneVars
          /\ Scene' = Scene]_vars

C11_Witness ==
    /\ pc = "draw"
    /\ parse_result = "true"
    /\ quit
    /\ screenshot = "saved"
    /\ title = <<"Image Viewer - Cursor", 1, 2>>
    /\ loaded_point_count >= 1
    /\ loaded_line_count >= 1
    /\ li = loaded_line_count
    /\ pi = loaded_point_count

\* C12 as stated: a script line adds at most one element to the Scene, and
\* a script line that is not a comment and contains "point(" never adds a
\* line element; when its point parse fails it adds nothing at all.
HasPointCall(text) == strstr(text, POINT_CALL) # 0

C12_OneElementPointFirst ==
    (pc = "parse" /\ cur_line # <<>>) =>
        /\ Len(Points) + Len(Lines)
              <= Len(line_start.points) + Len(line_start.lines) + 1
        /\ (~IsBlankOrComment(cur_line[1]) /\ HasPointCall(cur_line[1]))
              => /\ Lines = line_start.lines
                 /\ ~PointParses(cur_line[1]) => Scene = line_start

====
